---------------------------- MODULE Spec2Model ----------------------------
(***************************************************************************)
(* A model of smallshell.c: the prompt / parse / dispatch / launch / reap  *)
(* loop of main(), the SIGINT and SIGTSTP handlers, and the child          *)
(* processes the shell forks.  The shell's position in main() is pc; a     *)
(* child process is its entry in proc.  Wait statuses keep the encoding of *)
(* <sys/wait.h>: an exit code c is c * 256, a terminating signal s is s.   *)
(* Spec is the whole loop; TableSpec, ExpandSpec and CdSpec are the runs   *)
(* that fill the job table, the $$ expansion, and the cd built-in.         *)
(***************************************************************************)
EXTENDS Integers, Sequences, FiniteSets, TLC

VARIABLES
    fg_only_mode,      \* global flag toggled by catchSIGTSTP
    pc,                \* where main() is
    shell_status,      \* wait status of the shell process, RUNNING while it lives
    user_input,        \* the line fgets stored, as its tokens
    command,           \* the command buffer
    args,              \* args[0 .. num_args-1]
    input_file,        \* "" when no < target was stored
    output_file,       \* "" when no > target was stored
    run_in_background, \* 0 or 1
    childExitMethod,   \* the one wait-status variable of main()
    children,          \* children[0 .. num_procs-1], -5 for a reported slot
    reports,           \* how often the reaper printed "process completed" per slot
    spawnpid,          \* result of the last fork()
    i,                 \* index of the exit built-in's kill loop (1-based)
    proc,              \* the process table: pid -> FREE, RUNNING or a wait status
    out,               \* what the last step of main() printed
    cwd,               \* the shell's working directory, as the names from the root
    stdio              \* what descriptors 0 and 1 of the child forked in this iteration are bound to

vars == <<fg_only_mode, pc, shell_status, user_input, command, args,
          input_file, output_file, run_in_background,
          childExitMethod, children, reports, spawnpid, i, proc, out, cwd, stdio>>

shellVars == <<user_input, command, args, input_file, output_file, run_in_background>>

----------------------------------------------------------------------------
(* Bounds of the model *)

MaxTokens == 3     \* longest command line, in tokens
MaxProcs  == 2     \* most background launches in one run of the shell
MaxLaunches == 151 \* most background launches in a run that fills the job table
MaxWordLen == 4    \* longest argument, in characters, given to the $$ expansion
MaxArgs == 2       \* most arguments given to the $$ expansion

(* Program constants *)

InitChildExitMethod == -5
ResetFlag == -5
SIGINT == 2
SIGABRT == 6
SIGKILL == 9
SIGSEGV == 11
ForkLimit == 50

(* What a descriptor is bound to: the shell's own standard stream, which the
   child inherits, the null device, or a named file *)
TTY == "tty"
DevNull == "/dev/null"

(* No child has been forked in this iteration *)
NoChild == <<>>

(* The directory the shell is started in *)
StartDir == <<"home">>
ChildrenCapacity == 150

FREE    == -1      \* no process has this pid
RUNNING == -2      \* the process exists and has not terminated

(* Process ids: enough for every background job and one foreground child *)
Pids == 1 .. (MaxProcs + 1)

----------------------------------------------------------------------------
(* Command lines: a first token, then redirection, background and word tokens.
   The blank line is the empty sequence. *)

FirstTokens == {"exit", "cd", "status", "echo", "ls", "#c"}
RestTokens  == {"<", ">", "&", "f"}

RECURSIVE SeqsUpTo(_, _)
SeqsUpTo(S, n) ==
    IF n = 0 THEN {<<>>}
    ELSE LET shorter == SeqsUpTo(S, n - 1)
         IN  shorter \cup {Append(s, x) : s \in shorter, x \in S}

Lines == {<<>>} \cup {<<c>> \o r : c \in FirstTokens, r \in SeqsUpTo(RestTokens, MaxTokens - 1)}

(* token[0] == '#' *)
IsComment(t) == t = "#c"

----------------------------------------------------------------------------
(* <sys/wait.h> *)

W_EXITCODE(c) == c * 256
WTERMSIG(s) == s % 128
WIFEXITED(s) == WTERMSIG(s) = 0
WIFSIGNALED(s) == WTERMSIG(s) \in 1 .. 126
WEXITSTATUS(s) == (s \div 256) % 256

BoolToInt(b) == IF b THEN 1 ELSE 0

Msg(m, n) == [msg |-> m, n |-> n]

(* What a program that was exec'ed can end with *)
RunStatuses == {W_EXITCODE(0), W_EXITCODE(1), SIGINT}

Zombie(p) == proc[p] >= 0

----------------------------------------------------------------------------
Init ==
    /\ fg_only_mode = 0
    /\ pc = "prompt"
    /\ shell_status = RUNNING
    /\ user_input = <<>>
    /\ command = ""
    /\ args = <<>>
    /\ input_file = ""
    /\ output_file = ""
    /\ run_in_background = 0
    /\ childExitMethod = InitChildExitMethod
    /\ children = <<>>
    /\ reports = <<>>
    /\ spawnpid = 0
    /\ i = 0
    /\ proc = [p \in Pids |-> FREE]
    /\ out = <<>>
    /\ cwd = StartDir
    /\ stdio = NoChild

ShellAlive == pc \notin {"exited", "fork_error", "crashed"}

----------------------------------------------------------------------------
(* The flags both handlers are installed with *)
SA_RESTART == "SA_RESTART"
sa_flags_None == "0"
sa_flags == SA_RESTART

(* Where main() is once a handler has returned: with SA_RESTART the call that
   was interrupted is restarted; without it the foreground waitpid returns -1
   (EINTR) and main() goes on *)
AfterHandler(at) ==
    IF sa_flags = SA_RESTART THEN at
    ELSE IF at = "fgwait" THEN "reap" ELSE at

(* catchSIGTSTP: runs between steps of main(); the message it writes is not kept *)
catchSIGTSTP ==
    /\ ShellAlive
    /\ fg_only_mode' = IF fg_only_mode = 0 THEN 1 ELSE 0
    /\ pc' = AfterHandler(pc)
    /\ UNCHANGED <<stdio, cwd, shell_status, shellVars, childExitMethod, children, reports,
                   spawnpid, i, proc, out>>

(* SIGINT sent to the process group of the terminal, as by ctrl-c.  The shell
   runs catchSIGINT, which writes a message and returns, and its interrupted
   call is restarted (SA_RESTART).  Every child is in the shell's process
   group, no call moves it to another; execvp put the signal back to its
   default disposition in the child, which ends it. *)
catchSIGINT ==
    /\ ShellAlive
    /\ proc' = [p \in Pids |-> IF proc[p] = RUNNING THEN SIGINT ELSE proc[p]]
    /\ pc' = AfterHandler(pc)
    /\ UNCHANGED <<stdio, cwd, fg_only_mode, shell_status, shellVars, childExitMethod,
                   children, reports, spawnpid, i, out>>

----------------------------------------------------------------------------
(* The parse of one line *)

(* strcpy(dst, NULL) is undefined: the shell dies of SIGSEGV, or the copy
   stores whatever bytes it finds *)
GarbageStrings == {"", "f"}

(* The test guarding run_in_background = 1 *)
BackgroundAllowed_IgnoresMode(mode, cmd) == cmd # "echo"
BackgroundAllowed_IgnoresCommand(mode, cmd) == mode = 0
BackgroundAllowed(mode, cmd) == mode = 0 /\ cmd # "echo"

(* The token loop over the tokens toks still to come, from parse state st;
   the set of states it can end in *)
RECURSIVE ParseLoop(_, _, _)
ParseLoop(toks, mode, st) ==
    IF toks = <<>> THEN {st}
    ELSE LET t == Head(toks)
             r == Tail(toks)
         IN  CASE t = "<" ->
                    IF r = <<>>
                    THEN {[st EXCEPT !.crashed = TRUE]}
                         \cup {[st EXCEPT !.input_file = g] : g \in GarbageStrings}
                    ELSE ParseLoop(Tail(r), mode, [st EXCEPT !.input_file = Head(r)])
               [] t = ">" ->
                    IF r = <<>>
                    THEN {[st EXCEPT !.crashed = TRUE]}
                         \cup {[st EXCEPT !.output_file = g] : g \in GarbageStrings}
                    ELSE ParseLoop(Tail(r), mode, [st EXCEPT !.output_file = Head(r)])
               [] t = "&" ->
                    ParseLoop(r, mode,
                        [st EXCEPT !.run_in_background =
                            IF BackgroundAllowed(mode, st.command) THEN 1 ELSE @])
               [] OTHER ->
                    ParseLoop(r, mode, [st EXCEPT !.args = Append(@, t)])

(* The blank-line and comment tests, then the token loop *)
ParseLine(line, mode) ==
    LET reset == [command |-> "", args |-> <<>>, input_file |-> "", output_file |-> "",
                  run_in_background |-> 0, crashed |-> FALSE]
    IN  IF line = <<>> \/ IsComment(Head(line))
        THEN {reset}
        ELSE ParseLoop(line, mode, [reset EXCEPT !.command = Head(line)])

(* The prompt, fgets, and the parse of the line that was read *)
ReadLine(line, st) ==
    /\ pc = "prompt"
    /\ st \in ParseLine(line, fg_only_mode)
    /\ user_input' = line
    /\ command' = st.command
    /\ args' = st.args
    /\ input_file' = st.input_file
    /\ output_file' = st.output_file
    /\ run_in_background' = st.run_in_background
    /\ out' = <<>>
    /\ IF st.crashed
       THEN pc' = "crashed" /\ shell_status' = SIGSEGV
       ELSE pc' = "parsed" /\ shell_status' = shell_status
    /\ UNCHANGED <<stdio, cwd, fg_only_mode, childExitMethod, children,
                   reports, spawnpid, i, proc>>

Parsed == pc = "parsed"

(* main() does not read the parsed command again once it is dispatched: the
   resets at the top of the next iteration are taken with the dispatch *)
ResetCommand ==
    /\ user_input' = <<>>
    /\ command' = ""
    /\ args' = <<>>
    /\ input_file' = ""
    /\ output_file' = ""
    /\ run_in_background' = 0

Builtins == {"exit", "cd", "status"}

num_args == Len(args)
num_procs == Len(children)

----------------------------------------------------------------------------
(* kill(pid, sig): signal sig is sent to process pid.  A signal number outside
   1..64 is EINVAL, a pid that names no process is ESRCH; the signals sent in
   this program terminate a process that has not changed their disposition. *)
Kill(pid, sig) ==
    IF pid \in Pids /\ sig \in 1 .. 64 /\ proc[pid] = RUNNING
    THEN [proc EXCEPT ![pid] = sig]
    ELSE proc

(* The test of the exit built-in's for loop, on the 1-based index k *)
ExitLoopTest_OffByOne(k, n) == k < n
ExitLoopTest(k, n) == k <= n

(* exit built-in: entered *)
ExitCmd ==
    /\ Parsed
    /\ command = "exit"
    /\ pc' = "exit_loop"
    /\ i' = 1
    /\ ResetCommand
    /\ UNCHANGED <<stdio, cwd, fg_only_mode, shell_status, childExitMethod,
                   children, reports, spawnpid, proc, out>>

(* exit built-in: the loop's test of children[i] and its kill() call *)
ExitKill ==
    /\ pc = "exit_loop"
    /\ ExitLoopTest(i, num_procs)
    /\ IF children[i] > 0
       THEN /\ proc' = Kill(SIGKILL, children[i])
            /\ pc' = "exit_wait"
            /\ i' = i
       ELSE /\ proc' = proc
            /\ pc' = "exit_loop"
            /\ i' = i + 1
    /\ UNCHANGED <<stdio, cwd, fg_only_mode, shell_status, shellVars, childExitMethod,
                   children, reports, spawnpid, out>>

(* exit built-in: waitpid(children[i], &childExitMethod, 0) returns only when
   the child has terminated *)
ExitWait ==
    /\ pc = "exit_wait"
    /\ Zombie(children[i])
    /\ childExitMethod' = proc[children[i]]
    /\ proc' = [proc EXCEPT ![children[i]] = FREE]
    /\ pc' = "exit_loop"
    /\ i' = i + 1
    /\ UNCHANGED <<stdio, cwd, fg_only_mode, shell_status, shellVars, children, reports,
                   spawnpid, out>>

(* exit built-in: exit(0) after the loop *)
ExitDone ==
    /\ pc = "exit_loop"
    /\ ~ExitLoopTest(i, num_procs)
    /\ pc' = "exited"
    /\ shell_status' = W_EXITCODE(0)
    /\ UNCHANGED <<stdio, cwd, fg_only_mode, shellVars, childExitMethod, children,
                   reports, spawnpid, i, proc, out>>

(* The directories that exist, each as the names from the root; f is a file *)
Dirs == {<<>>, <<"home">>, <<"home", "d">>, <<"d">>}

(* The value of the HOME environment variable *)
HOME == "/home"

(* A path as the kernel reads it: absolute or not, and its components *)
ParsePath(t) ==
    CASE t = "/"       -> [abs |-> TRUE,  comps |-> <<>>]
      [] t = "/home"   -> [abs |-> TRUE,  comps |-> <<"home">>]
      [] t = "/home/d" -> [abs |-> TRUE,  comps |-> <<"home", "d">>]
      [] t = "../d"    -> [abs |-> FALSE, comps |-> <<"..", "d">>]
      [] OTHER         -> [abs |-> FALSE, comps |-> <<t>>]

(* Path resolution from directory dir: .. goes to the parent (the root is its
   own parent), a name goes into that entry, which has to be a directory *)
RECURSIVE Walk(_, _)
Walk(dir, comps) ==
    IF comps = <<>> THEN [ok |-> TRUE, dir |-> dir]
    ELSE LET c == Head(comps)
             next == IF c = ".."
                     THEN IF dir = <<>> THEN <<>> ELSE SubSeq(dir, 1, Len(dir) - 1)
                     ELSE Append(dir, c)
         IN  IF next \in Dirs THEN Walk(next, Tail(comps))
             ELSE [ok |-> FALSE, dir |-> dir]

(* chdir(t) by a process whose working directory is dir: the new working
   directory; on failure it is the old one *)
Chdir(dir, t) ==
    LET path == ParsePath(t)
        r == Walk(IF path.abs THEN <<>> ELSE dir, path.comps)
    IN  IF r.ok THEN r.dir ELSE dir

(* The argument cd passes to chdir: args[1] *)
CdPathArg_Command(a) == a[1]
CdPathArg(a) == a[2]

(* cd built-in: chdir, whose result is not looked at *)
CdCmd ==
    /\ Parsed
    /\ command = "cd"
    /\ cwd' = IF num_args = 1 THEN Chdir(cwd, HOME)
              ELSE IF num_args = 2 THEN Chdir(cwd, CdPathArg(args))
              ELSE cwd
    /\ pc' = "reap"
    /\ ResetCommand
    /\ UNCHANGED <<stdio, fg_only_mode, shell_status, childExitMethod,
                   children, reports, spawnpid, i, proc, out>>

(* What the status built-in prints for a wait status *)
StatusOutput(s) ==
    IF WIFEXITED(s) THEN <<Msg("exit value", WEXITSTATUS(s))>>
    ELSE IF WIFSIGNALED(s) THEN <<Msg("terminated by signal", WTERMSIG(s))>>
    ELSE <<>>

(* status built-in *)
StatusCmd ==
    /\ Parsed
    /\ command = "status"
    /\ out' = StatusOutput(childExitMethod)
    /\ pc' = "reap"
    /\ ResetCommand
    /\ UNCHANGED <<stdio, cwd, fg_only_mode, shell_status, childExitMethod,
                   children, reports, spawnpid, i, proc>>

----------------------------------------------------------------------------
(* Non-built-in commands.  The child's code between fork() and execvp() touches
   only the child itself, so the fork step also decides how the child's start
   ends: the child's entry in proc becomes a wait status when it exits before
   or instead of running the program, RUNNING when execvp succeeds. *)

(* execvp(args[0], args): with num_args = 0, args[0] is NULL, which execvp may
   not be given: the child dies of SIGSEGV or execvp returns -1 *)
ExecResults(a) ==
    IF Len(a) = 0
    THEN {SIGSEGV, W_EXITCODE(1)}
    ELSE {W_EXITCODE(1), RUNNING}

(* A named redirection target: open() or dup2() may fail, exit(1) or exit(2) *)
RedirectFailures(file) ==
    IF file # "" THEN {W_EXITCODE(1), W_EXITCODE(2)} ELSE {}

(* The child, case 0, from fork() to the end of execvp: how it ends or that it
   runs, and what its descriptors 0 and 1 are bound to by then.  A named
   target is opened and bound with dup2, and a failure of either ends the
   child; dflt is what an unnamed target leaves the descriptor bound to. *)
ChildSetup(inf, outf, a, dflt) ==
    LET fd0 == IF inf # "" THEN inf ELSE dflt
        fd1 == IF outf # "" THEN outf ELSE dflt
    IN  {[status |-> s, stdio |-> <<TTY, TTY>>] : s \in RedirectFailures(inf)}
        \cup {[status |-> s, stdio |-> <<fd0, TTY>>] : s \in RedirectFailures(outf)}
        \cup {[status |-> s, stdio |-> <<fd0, fd1>>] : s \in ExecResults(a)}

(* The foreground child, case 0: an unnamed target is left alone *)
ChildSetupFg(inf, outf, a) == ChildSetup(inf, outf, a, TTY)

(* The background child, case 0: an unnamed target is /dev/null, and neither
   that open() nor that dup2() is checked *)
ChildSetupBg_Inherits(inf, outf, a) == ChildSetup(inf, outf, a, TTY)
ChildSetupBg(inf, outf, a) == ChildSetup(inf, outf, a, DevNull)

(* fork_now after the increment: it is reset at the top of each iteration *)
ForkNow == 1

External == Parsed /\ command \notin Builtins

(* fork() returns a process id that no live process has; of the free ones the
   model takes the lowest, so a reaped id is handed out again at once *)
IsNextPid(p) == proc[p] = FREE /\ \A q \in Pids : q < p => proc[q] # FREE

(* What the foreground parent prints once waitpid has returned *)
FgParentOutput(s) ==
    IF WIFEXITED(s) THEN <<>>
    ELSE IF WIFSIGNALED(s) /\ WTERMSIG(s) # SIGSEGV
         THEN <<Msg("terminated by signal", WTERMSIG(s))>>
         ELSE <<>>

(* Foreground: fork() succeeds; the parent goes to its waitpid *)
ForkFg(p, r) ==
    /\ External
    /\ run_in_background = 0
    /\ IsNextPid(p)
    /\ r \in ChildSetupFg(input_file, output_file, args)
    /\ spawnpid' = p
    /\ proc' = [proc EXCEPT ![p] = r.status]
    /\ stdio' = r.stdio
    /\ IF ForkNow >= ForkLimit
       THEN pc' = "crashed" /\ shell_status' = SIGABRT
       ELSE pc' = "fgwait" /\ shell_status' = shell_status
    /\ ResetCommand
    /\ UNCHANGED <<cwd, fg_only_mode, childExitMethod, children,
                   reports, i, out>>

(* Foreground: fork() returns -1; perror and exit(1) *)
ForkFgFail ==
    /\ External
    /\ run_in_background = 0
    /\ spawnpid' = -1
    /\ pc' = "fork_error"
    /\ shell_status' = W_EXITCODE(1)
    /\ ResetCommand
    /\ UNCHANGED <<stdio, cwd, fg_only_mode, childExitMethod, children,
                   reports, i, proc, out>>

(* Foreground parent: waitpid(spawnpid, &childExitMethod, 0) returns *)
FgWait ==
    /\ pc = "fgwait"
    /\ Zombie(spawnpid)
    /\ childExitMethod' = proc[spawnpid]
    /\ proc' = [proc EXCEPT ![spawnpid] = FREE]
    /\ out' = FgParentOutput(proc[spawnpid])
    /\ stdio' = NoChild
    /\ pc' = "reap"
    /\ UNCHANGED <<cwd, fg_only_mode, shell_status, shellVars, children, reports,
                   spawnpid, i>>

(* What the background parent prints after "background pid is" *)
BgParentOutput(s) ==
    IF WIFEXITED(BoolToInt(s # 0)) THEN <<>>
    ELSE IF WIFSIGNALED(s) THEN <<Msg("terminated by signal", WTERMSIG(s))>>
    ELSE <<>>

(* Where the background parent goes after registering the job *)
BgParentNext_Waits == "fgwait"
BgParentNext == "reap"

(* Background: fork() succeeds; the parent prints the pid and stores it in
   children[num_procs].  children has room for ChildrenCapacity pids: a store
   at or past that index writes outside the block malloc returned, which is
   undefined: the shell dies of SIGSEGV, or the store lands in memory that
   nothing else uses and the program goes on. *)
BgLaunch(p, r) ==
    /\ External
    /\ run_in_background = 1
    /\ IsNextPid(p)
    /\ r \in ChildSetupBg(input_file, output_file, args)
    /\ spawnpid' = p
    /\ proc' = [proc EXCEPT ![p] = r.status]
    /\ stdio' = r.stdio
    /\ IF ForkNow >= ForkLimit
       THEN /\ pc' = "crashed" /\ shell_status' = SIGABRT
            /\ UNCHANGED <<stdio, cwd, out, children, reports>>
       ELSE /\ \/ pc' = BgParentNext /\ shell_status' = shell_status
               \/ /\ num_procs >= ChildrenCapacity
                  /\ pc' = "crashed" /\ shell_status' = SIGSEGV
            /\ out' = <<Msg("background pid is", p)>> \o BgParentOutput(childExitMethod)
            /\ children' = Append(children, p)
            /\ reports' = Append(reports, 0)
    /\ ResetCommand
    /\ UNCHANGED <<cwd, fg_only_mode, childExitMethod, i>>

(* The background launch, for at most MaxProcs launches in one run *)
ForkBg(p, r) ==
    /\ num_procs < MaxProcs
    /\ BgLaunch(p, r)

(* Background: fork() returns -1; perror and exit(1) *)
ForkBgFail ==
    /\ External
    /\ run_in_background = 1
    /\ spawnpid' = -1
    /\ pc' = "fork_error"
    /\ shell_status' = W_EXITCODE(1)
    /\ ResetCommand
    /\ UNCHANGED <<stdio, cwd, fg_only_mode, childExitMethod, children,
                   reports, i, proc, out>>

(* A child that runs its program terminates, when and how it likes *)
ChildExit(p, s) ==
    /\ proc[p] = RUNNING
    /\ s \in RunStatuses
    /\ proc' = [proc EXCEPT ![p] = s]
    /\ UNCHANGED <<stdio, cwd, fg_only_mode, pc, shell_status, shellVars, childExitMethod,
                   children, reports, spawnpid, i, out>>

----------------------------------------------------------------------------
(* The reaper loop at the end of every iteration *)

(* waitpid(pid, &status, WNOHANG) against process table pr *)
WaitNoHang(pr, pid, status) ==
    IF pid \in Pids /\ pr[pid] >= 0
    THEN [ret |-> pid, status |-> pr[pid], proc |-> [pr EXCEPT ![pid] = FREE]]
    ELSE IF pid \in Pids /\ pr[pid] = RUNNING
         THEN [ret |-> 0, status |-> status, proc |-> pr]
         ELSE [ret |-> -1, status |-> status, proc |-> pr]

(* What the reaper prints after "process completed" *)
ReaperOutput(s) ==
    IF WIFEXITED(BoolToInt(s # 0)) THEN <<Msg("exit value", WEXITSTATUS(s))>>
    ELSE IF WIFSIGNALED(s) THEN <<Msg("term sig was", WTERMSIG(s))>>
    ELSE <<>>

(* The test that decides whether slot k is reported *)
Completed_ZeroReturn(temp, pid) == temp >= 0
Completed(temp, pid) == temp = pid

(* One pass of the for loop, at slot k, on st = the variables it touches *)
ReapSlot(k, st) ==
    LET pid == st.children[k]
        w == IF pid # ResetFlag
             THEN WaitNoHang(st.proc, pid, st.status)
             ELSE [ret |-> st.temp, status |-> st.status, proc |-> st.proc]
    IN  IF Completed(w.ret, pid)
        THEN [children |-> [st.children EXCEPT ![k] = ResetFlag],
              reports  |-> [st.reports EXCEPT ![k] = @ + 1],
              status   |-> w.status,
              temp     |-> w.ret,
              proc     |-> w.proc,
              out      |-> st.out \o <<Msg("process completed", pid)>> \o ReaperOutput(w.status)]
        ELSE [st EXCEPT !.temp = w.ret, !.status = w.status, !.proc = w.proc]

RECURSIVE ReapFrom(_, _)
ReapFrom(k, st) ==
    IF k > Len(st.children) THEN st ELSE ReapFrom(k + 1, ReapSlot(k, st))

Reap ==
    /\ pc = "reap"
    /\ LET st == ReapFrom(1, [children |-> children, reports |-> reports,
                              status |-> childExitMethod, temp |-> 0,
                              proc |-> proc, out |-> <<>>])
       IN  /\ children' = st.children
           /\ reports' = st.reports
           /\ childExitMethod' = st.status
           /\ proc' = st.proc
           /\ out' = st.out
    /\ pc' = "prompt"
    /\ spawnpid' = 0   \* not read again before the next fork() assigns it
    /\ stdio' = NoChild
    /\ UNCHANGED <<cwd, fg_only_mode, shell_status, shellVars, i>>

----------------------------------------------------------------------------
Next ==
    \/ catchSIGTSTP
    \/ catchSIGINT
    \/ /\ pc = "prompt"
       /\ \E line \in Lines : \E st \in ParseLine(line, fg_only_mode) : ReadLine(line, st)
    \/ ExitCmd
    \/ ExitKill
    \/ ExitWait
    \/ ExitDone
    \/ CdCmd
    \/ StatusCmd
    \/ /\ External
       /\ \E p \in Pids : \E r \in ChildSetupFg(input_file, output_file, args) : ForkFg(p, r)
    \/ ForkFgFail
    \/ FgWait
    \/ /\ External
       /\ \E p \in Pids : \E r \in ChildSetupBg(input_file, output_file, args) : ForkBg(p, r)
    \/ ForkBgFail
    \/ \E p \in Pids : \E s \in RunStatuses : ChildExit(p, s)
    \/ Reap

Spec == Init /\ [][Next]_vars

----------------------------------------------------------------------------
(* The runs that fill the job table: the user types the same background
   command again and again, each time after the jobs started so far have
   ended. *)
TableLine == <<"ls", "&">>

TableReadLine ==
    /\ pc = "prompt"
    /\ num_procs < MaxLaunches
    /\ \A p \in Pids : proc[p] # RUNNING
    /\ \E st \in ParseLine(TableLine, fg_only_mode) : ReadLine(TableLine, st)

TableNext ==
    \/ TableReadLine
    \/ \E p \in Pids : \E r \in ChildSetupBg(input_file, output_file, args) : BgLaunch(p, r)
    \/ \E p \in Pids : ChildExit(p, W_EXITCODE(0))
    \/ Reap

TableSpec == Init /\ [][TableNext]_vars

----------------------------------------------------------------------------
(* The $$ expansion of the arguments, on arguments spelled out as sequences
   of characters *)

Chars == {"a", "$"}

RECURSIVE WordsOfLen(_)
WordsOfLen(n) ==
    IF n = 0 THEN {<<>>}
    ELSE {<<c>> \o w : c \in Chars, w \in WordsOfLen(n - 1)}

Words == UNION {WordsOfLen(n) : n \in 1 .. MaxWordLen}

ArgLists == UNION {[1 .. n -> Words] : n \in 1 .. MaxArgs}

(* Values of getpid() *)
ShellPids == {7, 42, 305}

Digits == <<"0", "1", "2", "3", "4", "5", "6", "7", "8", "9">>

(* sprintf's %d of a nonnegative int *)
RECURSIVE Decimal(_)
Decimal(n) ==
    IF n < 10 THEN <<Digits[n + 1]>>
    ELSE Decimal(n \div 10) \o <<Digits[(n % 10) + 1]>>

(* strstr(w, "$$") != NULL *)
HasDollars(w) == \E j \in 1 .. Len(w) - 1 : w[j] = "$" /\ w[j + 1] = "$"

(* strtok(w, "$$"): its second argument is a set of delimiters, here the one
   character $.  Leading delimiters are skipped, the token runs up to the
   next delimiter; the result is NULL (here <<>>: a token is never empty)
   when nothing but delimiters is left. *)
RECURSIVE SkipDelims(_)
SkipDelims(w) ==
    IF w # <<>> /\ Head(w) = "$" THEN SkipDelims(Tail(w)) ELSE w

RECURSIVE TakeToken(_)
TakeToken(w) ==
    IF w = <<>> \/ Head(w) = "$" THEN <<>> ELSE <<Head(w)>> \o TakeToken(Tail(w))

StrTok(w) == TakeToken(SkipDelims(w))

(* What glibc's %s prints for a null pointer *)
NullText == <<"(", "n", "u", "l", "l", ")">>

(* The outcomes of the loop body for one argument.  sprintf with a null
   pointer for %s is undefined: the shell dies of SIGSEGV or the text for a
   null pointer is printed. *)
ExpandArg(w, pid) ==
    IF ~HasDollars(w) THEN {[crashed |-> FALSE, arg |-> w]}
    ELSE IF w = <<"$", "$">> THEN {[crashed |-> FALSE, arg |-> Decimal(pid)]}
    ELSE LET tmpstr == StrTok(w)
         IN  IF tmpstr = <<>>
             THEN {[crashed |-> TRUE, arg |-> w],
                   [crashed |-> FALSE, arg |-> NullText \o Decimal(pid)]}
             ELSE {[crashed |-> FALSE, arg |-> tmpstr \o Decimal(pid)]}

(* The for loop over args[0 .. num_args-1] *)
ExpandArgs(pid) ==
    /\ pc = "expand"
    /\ \E res \in [1 .. num_args -> UNION {ExpandArg(args[k], pid) : k \in 1 .. num_args}] :
          /\ \A k \in 1 .. num_args : res[k] \in ExpandArg(args[k], pid)
          /\ args' = [k \in 1 .. num_args |-> res[k].arg]
          /\ IF \E k \in 1 .. num_args : res[k].crashed
             THEN pc' = "crashed" /\ shell_status' = SIGSEGV
             ELSE pc' = "expanded" /\ shell_status' = shell_status
    /\ UNCHANGED <<stdio, cwd, fg_only_mode, user_input, command, input_file, output_file,
                   run_in_background, childExitMethod, children, reports,
                   spawnpid, i, proc, out>>

(* The state after the parse of a line whose tokens are all arguments *)
ExpandInit ==
    /\ fg_only_mode = 0
    /\ pc = "expand"
    /\ shell_status = RUNNING
    /\ args \in ArgLists
    /\ user_input = args
    /\ command = ""
    /\ input_file = ""
    /\ output_file = ""
    /\ run_in_background = 0
    /\ childExitMethod = InitChildExitMethod
    /\ children = <<>>
    /\ reports = <<>>
    /\ spawnpid = 0
    /\ i = 0
    /\ proc = [p \in Pids |-> FREE]
    /\ out = <<>>
    /\ cwd = StartDir
    /\ stdio = NoChild

ExpandNext == \E pid \in ShellPids : ExpandArgs(pid)

ExpandSpec == ExpandInit /\ [][ExpandNext]_vars

----------------------------------------------------------------------------
(* The cd built-in on its own: a cd line has been parsed, in any directory,
   with any last result stored and with or without a background job *)

PathTokens == {"/", "/home", "/home/d", "../d", "d", "..", "f"}

CdArgLists ==
    {<<"cd">>} \cup {<<"cd", t>> : t \in PathTokens}
               \cup {<<"cd", t, u>> : t \in PathTokens, u \in PathTokens}

CdInit ==
    /\ fg_only_mode = 0
    /\ pc = "parsed"
    /\ shell_status = RUNNING
    /\ args \in CdArgLists
    /\ user_input = args
    /\ command = "cd"
    /\ input_file = ""
    /\ output_file = ""
    /\ run_in_background = 0
    /\ childExitMethod \in {InitChildExitMethod} \cup RunStatuses
    /\ \/ children = <<>> /\ reports = <<>> /\ proc = [p \in Pids |-> FREE]
       \/ /\ children = <<1>> /\ reports = <<0>>
          /\ \E s \in {RUNNING} \cup RunStatuses :
                proc = [p \in Pids |-> IF p = 1 THEN s ELSE FREE]
    /\ spawnpid = 0
    /\ i = 0
    /\ out = <<>>
    /\ cwd \in Dirs
    /\ stdio = NoChild

CdNext == CdCmd \/ Reap

CdSpec == CdInit /\ [][CdNext]_vars

----------------------------------------------------------------------------
(* Properties *)

Slots == 1 .. num_procs

(* Slot k holds the pid of a job that the reaper has not reported *)
Tracked(k) == k \in Slots /\ children[k] # ResetFlag

(* C1: the reaping of a background job never changes what the status built-in
   reports: a pass of the reaper leaves the report for childExitMethod as it
   was. *)
C1_ReapKeepsStatus ==
    [][pc = "reap" => StatusOutput(childExitMethod') = StatusOutput(childExitMethod)]_vars

(* C2: when the shell has terminated through the exit built-in, its exit
   status is 0 and no job of the table is still running, however many jobs the
   table holds. *)
C2_ExitAfterJobsTerminated ==
    pc = "exited" =>
        /\ shell_status = W_EXITCODE(0)
        /\ \A k \in Slots : Tracked(k) => proc[children[k]] # RUNNING

(* Reached: the shell has exited with every slot of a full table still
   tracked when exit was typed *)
C2_Witness ==
    /\ pc = "exited"
    /\ num_procs >= 2
    /\ \A k \in Slots : Tracked(k)

(* C3: the exit built-in has killed the job it waits for: while it is blocked
   in waitpid for slot i, that job is no longer running. *)
C3_ExitKillsJob ==
    pc = "exit_wait" => proc[children[i]] # RUNNING

(* The line just parsed is blank or a comment *)
NoOpLine == Parsed /\ (user_input = <<>> \/ IsComment(Head(user_input)))

(* C4: a blank line or a comment is a no-op: from the parsed line the shell
   goes on to the end of the iteration, no process is created, no job is
   registered and childExitMethod keeps its value. *)
C4_BlankLineIsNoOp ==
    [][NoOpLine =>
          /\ pc' \in {"parsed", "reap"}
          /\ \A p \in Pids : proc[p] = FREE => proc'[p] = FREE
          /\ children' = children
          /\ childExitMethod' = childExitMethod]_vars

(* The step of main() that reads and parses a line *)
ReadStep == pc = "prompt" /\ pc' # "prompt"

(* The step of main() that dispatches the parsed command *)
DispatchStep == Parsed /\ pc' # "parsed"

Last(seq) == seq[Len(seq)]

Printed(m, o) == \E k \in 1 .. Len(o) : o[k].msg = m

(* The line ends in a & that the token loop sees as a token of its own, not
   as the target of a redirection *)
TrailingAmpersand(line) ==
    /\ Len(line) >= 2
    /\ Last(line) = "&"
    /\ line[Len(line) - 1] \notin {"<", ">"}

(* C5: a line parsed while foreground-only mode is on never sets the
   background flag; a command dispatched without the flag is run in the
   foreground: no "background pid is" line, no new job; and with the mode off
   a trailing & sets the flag for every command but echo. *)
C5_ForegroundOnlyIgnoresAmpersand ==
    [][/\ (ReadStep /\ fg_only_mode = 1) => run_in_background' = 0
       /\ (DispatchStep /\ External /\ run_in_background = 0) =>
             /\ pc' \in {"fgwait", "fork_error"}
             /\ ~Printed("background pid is", out')
             /\ children' = children
       /\ (ReadStep /\ fg_only_mode = 0 /\ pc' = "parsed" /\ TrailingAmpersand(user_input')
             /\ command' \notin {"", "echo"}) => run_in_background' = 1]_vars

(* Reached: "ls &" was parsed in foreground-only mode and is about to run in
   the foreground *)
C5_Witness ==
    /\ Parsed
    /\ fg_only_mode = 1
    /\ user_input = <<"ls", "&">>
    /\ run_in_background = 0

(* C6: status run while childExitMethod still has its initial value, that is
   before any wait has stored a result, prints "exit value 0". *)
C6_StatusDefault ==
    [][(DispatchStep /\ command = "status" /\ childExitMethod = InitChildExitMethod)
          => out' = <<Msg("exit value", 0)>>]_vars

(* The job of slot k has terminated and the reaper has not collected it *)
Terminated(k) == Tracked(k) /\ Zombie(children[k])

(* A pass of the reaper *)
ReapStep == pc = "reap" /\ pc' # "reap"

(* C7: a slot is reported at most once, and exactly the reported slots are
   invalidated; the shell comes back to the prompt only through a pass of the
   reaper; a pass reports every tracked job that has terminated and no other,
   leaving a job that still runs tracked and unreported; no other step
   reports; and as long as lines keep being read, a terminated job is
   eventually reported. *)
C7_TerminatedJobReportedOnce ==
    /\ [](\A k \in Slots : reports[k] <= 1 /\ (reports[k] = 1 <=> children[k] = ResetFlag))
    /\ [][/\ (pc # "prompt" /\ pc' = "prompt") => pc = "reap"
          /\ ReapStep => \A k \in Slots :
                IF Terminated(k)
                THEN /\ reports'[k] = reports[k] + 1
                     /\ Printed("process completed", out')
                ELSE /\ reports'[k] = reports[k]
                     /\ children'[k] = children[k]
          /\ ~ReapStep => \A k \in Slots : reports'[k] = reports[k]]_vars
    /\ ([]<><<ReadStep>>_vars =>
           \A k \in 1 .. MaxProcs : (Terminated(k) ~> (k \in Slots /\ reports[k] = 1)))

(* Reached: one job has been reported while another, still running, stays
   tracked *)
C7_Witness ==
    /\ pc = "prompt"
    /\ \E k \in Slots : reports[k] = 1
    /\ \E k \in Slots : Tracked(k) /\ proc[children[k]] = RUNNING /\ reports[k] = 0

(* The dispatch of a command marked for the background, fork() succeeding *)
BgLaunchStep == DispatchStep /\ External /\ run_in_background = 1 /\ pc' # "fork_error"

(* C8: a background launch prints the new pid, appends that pid to the table
   as the only entry holding it, with a live process behind it, and goes on to
   the reaper's non-blocking pass without waiting; the shell never blocks in
   the foreground wait on a pid of the table. *)
C8_BackgroundLaunchDoesNotWait ==
    /\ [][BgLaunchStep =>
             /\ pc' = "reap"
             /\ out'[1] = Msg("background pid is", spawnpid')
             /\ children' = Append(children, spawnpid')
             /\ Cardinality({k \in 1 .. Len(children') : children'[k] = spawnpid'}) = 1
             /\ reports' = Append(reports, 0)
             /\ proc'[spawnpid'] # FREE]_vars
    /\ [](pc = "fgwait" => \A k \in Slots : children[k] # spawnpid)

(* Reached: the shell is back at the prompt while a job launched in the
   background is still running *)
C8_Witness ==
    /\ pc = "prompt"
    /\ \E k \in Slots : Tracked(k) /\ proc[children[k]] = RUNNING

(* The token loop meets a < or > with no token after it *)
RECURSIVE EndsInOperator(_)
EndsInOperator(toks) ==
    IF toks = <<>> THEN FALSE
    ELSE IF Head(toks) \in {"<", ">"}
         THEN Len(toks) = 1 \/ EndsInOperator(Tail(Tail(toks)))
         ELSE EndsInOperator(Tail(toks))

(* C9: a line whose last token is a < or > without a target is refused: the
   shell neither crashes nor goes on to dispatch the command. *)
C9_MissingTargetIsParseError ==
    [][(ReadStep /\ user_input' # <<>> /\ ~IsComment(Head(user_input'))
            /\ EndsInOperator(user_input'))
          => pc' \notin {"crashed", "parsed"}]_vars

(* C10: a failure of process creation while launching an external command
   does not terminate the shell. *)
C10_LaunchFailureKeepsShell ==
    [][(DispatchStep /\ External /\ command # "") => pc' \notin {"fork_error", "crashed"}]_vars

(* C11: a & takes effect only as the last token: a line that is parsed
   without crashing and does not end in a & token leaves run_in_background
   at 0. *)
C11_AmpersandOnlyWhenLast ==
    [][(ReadStep /\ pc' = "parsed" /\ command' \notin Builtins
             /\ ~EndsInOperator(user_input') /\ ~TrailingAmpersand(user_input'))
          => run_in_background' = 0]_vars

(* Slot k holds the pid of a background job that is still running *)
RunningJob(k) == Tracked(k) /\ proc[children[k]] = RUNNING

(* C12: a SIGINT sent to the shell's process group leaves the shell running
   where it was, ends the foreground command the shell is waiting for, and
   ends no background job. *)
C12_SigintOnlyForeground ==
    [][catchSIGINT =>
          /\ pc' = pc /\ shell_status' = shell_status
          /\ (pc = "fgwait" => Zombie(spawnpid)')
          /\ \A k \in Slots : RunningJob(k) => RunningJob(k)']_vars

(* C13: every successful background launch stores the pid inside the job
   table, at an index below its capacity, reusing the slot of a reported job
   when there is one; or it registers nothing and goes on (the launch is
   refused).  The table never grows past its capacity. *)
C13_JobTableWithinCapacity ==
    [][BgLaunchStep =>
          \/ /\ num_procs < ChildrenCapacity \/ \E k \in Slots : ~Tracked(k)
             /\ Len(children') <= ChildrenCapacity
          \/ children' = children /\ pc' = "reap"]_vars

(* What the report of a job with wait status s has to say after the pid *)
Classification(s) ==
    IF WIFEXITED(s) THEN Msg("exit value", WEXITSTATUS(s))
    ELSE Msg("term sig was", WTERMSIG(s))

(* Output o holds the line m immediately followed by the line n *)
PrintedPair(m, n, o) == \E j \in 1 .. Len(o) - 1 : o[j] = m /\ o[j + 1] = n

(* C14: a pass of the reaper prints, for every tracked job that has
   terminated, the job's pid followed by its classification: the exit value
   of a job that exited, the signal number of a job that was killed. *)
C14_ReaperPrintsClassification ==
    [][ReapStep =>
          \A k \in Slots : Terminated(k) =>
              PrintedPair(Msg("process completed", children[k]),
                          Classification(proc[children[k]]), out')]_vars

(* Argument w is some prefix followed by $$, the only $$ in it *)
SuffixForm(w) ==
    /\ Len(w) >= 3
    /\ w[Len(w) - 1] = "$" /\ w[Len(w)] = "$"
    /\ ~HasDollars(SubSeq(w, 1, Len(w) - 1))

(* The arguments the expansion is specified for *)
InContract(w) == w = <<"$", "$">> \/ SuffixForm(w) \/ ~HasDollars(w)

(* C15: the expansion turns an argument equal to $$ into the shell's pid in
   decimal, an argument prefix$$ into the prefix followed by the pid, and
   leaves an argument without $$ as it is. *)
C15_DollarExpansion ==
    [][\A pid \in ShellPids : ExpandArgs(pid) =>
          /\ (\A k \in 1 .. num_args : InContract(args[k])) => pc' = "expanded"
          /\ \A k \in 1 .. num_args :
                /\ args[k] = <<"$", "$">> => args'[k] = Decimal(pid)
                /\ SuffixForm(args[k]) =>
                      args'[k] = SubSeq(args[k], 1, Len(args[k]) - 2) \o Decimal(pid)
                /\ ~HasDollars(args[k]) => args'[k] = args[k]]_vars

(* The directory a path names for a process whose working directory is dir,
   when it names one *)
Names(dir, t, d) ==
    LET path == ParsePath(t)
        r == Walk(IF path.abs THEN <<>> ELSE dir, path.comps)
    IN  r.ok /\ r.dir = d

(* C16: cd with no argument makes the directory HOME names the working
   directory, cd with one argument makes the directory that path names,
   relative paths taken from the working directory, the working directory;
   the step creates no process and leaves childExitMethod and the job table
   as they were. *)
C16_CdChangesDirectoryOnly ==
    [][(DispatchStep /\ command = "cd") =>
          /\ Len(user_input) = 1 => Names(<<>>, HOME, cwd')
          /\ Len(user_input) = 2 =>
                \A d \in Dirs : Names(cwd, user_input[2], d) => cwd' = d
          /\ proc' = proc /\ children' = children /\ reports' = reports
          /\ childExitMethod' = childExitMethod]_vars

(* After a cd from some other directory the shell is in /home/d, with a
   background job still running *)
C16_Witness ==
    /\ pc = "reap"
    /\ cwd = <<"home", "d">>
    /\ num_procs = 1 /\ RunningJob(1)

(* The foreground waitpid returns *)
FgWaitStep == pc = "fgwait" /\ pc' # "fgwait"

(* The reaper pass of an iteration that ran a foreground command *)
FgReapStep == ReapStep /\ spawnpid > 0 /\ \A k \in Slots : children[k] # spawnpid

(* C17: when the foreground child has ended, what is recorded makes status
   report "terminated by signal N" for a child killed by signal N and "exit
   value C" for a child that exited with code C; the "terminated by signal N"
   line is printed at completion exactly when N is not 11; and the record is
   still the same at the next prompt, where a following status reads it. *)
C17_ForegroundResultRecorded ==
    /\ [][FgWaitStep =>
             LET s == proc[spawnpid]
             IN  /\ WIFSIGNALED(s) =>
                       /\ StatusOutput(childExitMethod') = <<Msg("terminated by signal", WTERMSIG(s))>>
                       /\ Printed("terminated by signal", out') <=> WTERMSIG(s) # SIGSEGV
                 /\ WIFEXITED(s) =>
                       /\ StatusOutput(childExitMethod') = <<Msg("exit value", WEXITSTATUS(s))>>
                       /\ out' = <<>>]_vars
    /\ [][FgReapStep => StatusOutput(childExitMethod') = StatusOutput(childExitMethod)]_vars

(* Process p is a background job the shell tracks *)
IsJob(p) == \E k \in Slots : children[k] = p

(* A signal handler of the shell runs *)
HandlerStep == catchSIGINT \/ catchSIGTSTP

(* C18: the shell is at the prompt, or has read a line, only when no process
   it started is running other than its background jobs; it leaves the
   foreground wait only when the foreground child has terminated, and a
   SIGINT or SIGTSTP handled during the wait leaves it waiting. *)
C18_ForegroundCompletesBeforePrompt ==
    /\ [](pc \in {"prompt", "parsed"} =>
             \A p \in Pids : proc[p] = RUNNING => IsJob(p))
    /\ [][FgWaitStep => Zombie(spawnpid) /\ proc'[spawnpid] = FREE]_vars
    /\ [][(HandlerStep /\ pc = "fgwait") => pc' = "fgwait"]_vars

(* The shell is still waiting for a running foreground child after SIGTSTP
   has switched the mode *)
C18_Witness ==
    /\ pc = "fgwait"
    /\ proc[spawnpid] = RUNNING
    /\ fg_only_mode = 1

(* The commands that are always run in the foreground *)
ForegroundOnly == Builtins \cup {"echo"}

(* No process is created by the step *)
NoNewProcess == \A p \in Pids : proc[p] = FREE => proc'[p] = FREE

(* C19: exit, cd, status and echo are never run in the background: a parsed
   echo line never has the background flag; the dispatch of any of the four
   registers no job and prints no background pid, whatever the flag and the
   mode; the dispatch of a built-in, and every later step of exit, creates no
   process; echo is run as a foreground child. *)
C19_BuiltinsAndEchoForeground ==
    /\ [](Parsed /\ command = "echo" => run_in_background = 0)
    /\ [][(DispatchStep /\ command \in ForegroundOnly) =>
             /\ children' = children
             /\ ~Printed("background pid is", out')
             /\ command \in Builtins => NoNewProcess
             /\ command = "echo" => pc' \in {"fgwait", "fork_error"}]_vars
    /\ [][(pc \in {"exit_loop", "exit_wait"}) => (NoNewProcess /\ children' = children)]_vars

(* A built-in has been parsed from a line with a & that set the flag *)
C19_Witness ==
    /\ Parsed
    /\ command \in Builtins
    /\ run_in_background = 1
    /\ TrailingAmpersand(user_input)

(* What a descriptor of the child has to be bound to: the named target when
   there is one, else the null device in the background and the shell's own
   stream in the foreground *)
Binding(file, bg) == IF file # "" THEN file ELSE IF bg = 1 THEN DevNull ELSE TTY

(* An external command is dispatched and its child gets to run the program *)
ChildRunsStep ==
    /\ DispatchStep /\ External
    /\ pc' \in {"fgwait", "reap"}
    /\ proc'[spawnpid'] = RUNNING

(* C20: the child that runs the program of an external command has
   descriptor 0 bound to the < target and descriptor 1 to the > target when
   they are named; unnamed, a background child has them bound to the null
   device and a foreground child keeps the shell's own. *)
C20_ChildRedirection ==
    [][ChildRunsStep =>
          /\ (pc' = "reap") <=> (run_in_background = 1)
          /\ stdio' = <<Binding(input_file, run_in_background),
                        Binding(output_file, run_in_background)>>]_vars

(* A background child runs with its output in file f and its input, which
   the line did not name, from the null device *)
C20_Witness ==
    /\ pc = "reap"
    /\ spawnpid > 0 /\ proc[spawnpid] = RUNNING /\ IsJob(spawnpid)
    /\ stdio = <<DevNull, "f">>

(* C21: a background launch prints the "background pid is N" line of the new
   job and nothing else, whatever childExitMethod holds from earlier
   commands. *)
C21_BackgroundLaunchPrintsOnlyPid ==
    [][BgLaunchStep => out' = <<Msg("background pid is", spawnpid')>>]_vars

====
